---- MODULE Spec2Model ----
(***************************************************************************)
(* Jukebox API: the Express route handlers over the three PostgreSQL       *)
(* tables playlists, tracks and playlists_tracks.                          *)
(*                                                                         *)
(* Strings are sequences of one-character strings.  A JavaScript number is *)
(* a record: NaN, a non-integer, or an integer given by its sign and its   *)
(* decimal digits (most significant first, no leading zero), so that       *)
(* identifiers beyond the 32-bit range of the integer columns can be told  *)
(* apart from the ones PostgreSQL accepts.                                 *)
(***************************************************************************)
EXTENDS Integers, Sequences, FiniteSets, TLC

VARIABLES playlists, tracks, playlists_tracks, playlists_id_seq,
          playlists_tracks_id_seq, reqs

vars == <<playlists, tracks, playlists_tracks, playlists_id_seq,
          playlists_tracks_id_seq, reqs>>

(***************************************************************************)
(* Bounds of the model                                                     *)
(***************************************************************************)
\* the playlists sequence hands out identifiers up to this value
MaxPlaylistSeq == 2
\* the playlists_tracks sequence hands out identifiers up to this value
MaxAssocSeq == 3
\* the longest identifier string drawn from IdAlphabet
MaxIdLen == 3

\* the request handlers that can be in flight at the same time
Slots == {1, 2}

(***************************************************************************)
(* JavaScript numbers and strings                                          *)
(***************************************************************************)
DigitChars == <<"0", "1", "2", "3", "4", "5", "6", "7", "8", "9">>

IsDigitChar(c) == \E i \in 1..10 : DigitChars[i] = c

DigitVal(c) == (CHOOSE i \in 1..10 : DigitChars[i] = c) - 1

WhiteSpaceChars == {" ", "\t", "\n"}

NaN == [t |-> "number", kind |-> "nan", neg |-> FALSE, mag |-> <<>>]

IntNum(neg, mag) == [t |-> "number", kind |-> "int", neg |-> neg, mag |-> mag]

FracNum(neg, mag) == [t |-> "number", kind |-> "frac", neg |-> neg, mag |-> mag]

RECURSIVE StripWhile(_, _)
StripWhile(s, set) ==
    IF s # <<>> /\ Head(s) \in set THEN StripWhile(Tail(s), set) ELSE s

RECURSIVE DigitPrefix(_)
DigitPrefix(s) ==
    IF s # <<>> /\ IsDigitChar(Head(s))
    THEN <<DigitVal(Head(s))>> \o DigitPrefix(Tail(s))
    ELSE <<>>

RECURSIVE StripZeros(_)
StripZeros(d) ==
    IF Len(d) > 1 /\ Head(d) = 0 THEN StripZeros(Tail(d)) ELSE d

\* parseInt(idString, 10): leading white space is skipped, then an optional
\* sign, then the longest run of decimal digits; anything after it is ignored
parseInt(idString) ==
    LET s1   == StripWhile(idString, WhiteSpaceChars)
        neg  == s1 # <<>> /\ Head(s1) = "-"
        s2   == IF s1 # <<>> /\ Head(s1) \in {"-", "+"} THEN Tail(s1) ELSE s1
        digs == DigitPrefix(s2)
    IN  IF digs = <<>> THEN NaN ELSE IntNum(neg, StripZeros(digs))

isNaN(n) == n.kind = "nan"

IsZero(n) == n.mag = <<0>>

\* n > 0 for a JavaScript number (false for NaN and for -0)
GreaterThanZero(n) == n.kind # "nan" /\ ~n.neg /\ ~IsZero(n)

RECURSIVE StripTrailingZeros(_)
StripTrailingZeros(d) ==
    IF Len(d) > 1 /\ d[Len(d)] = 0
    THEN StripTrailingZeros(SubSeq(d, 1, Len(d) - 1)) ELSE d

\* the exponential notation Number.prototype.toString() uses from 10^21 on:
\* the significant digits with a point after the first, then e+ and the
\* exponent (two digits for every magnitude of 22 to 100 digits)
ExponentForm(mag) ==
    LET sig == StripTrailingZeros(mag)
        e   == Len(mag) - 1
    IN  <<DigitChars[sig[1] + 1]>>
        \o (IF Len(sig) > 1
            THEN <<".">> \o [i \in 1..(Len(sig) - 1) |-> DigitChars[sig[i + 1] + 1]]
            ELSE <<>>)
        \o <<"e", "+", DigitChars[(e \div 10) + 1], DigitChars[(e % 10) + 1]>>

\* Number.prototype.toString() for NaN and for the numbers of the model,
\* whose digits a double holds exactly: plain decimal digits below 10^21,
\* exponential notation from 10^21 on
NumToString(n) ==
    IF n.kind = "nan" THEN <<"N", "a", "N">>
    ELSE (IF n.neg /\ ~IsZero(n) THEN <<"-">> ELSE <<>>)
         \o (IF Len(n.mag) > 21
             THEN ExponentForm(n.mag)
             ELSE [i \in 1..Len(n.mag) |-> DigitChars[n.mag[i] + 1]])
         \o (IF n.kind = "frac" THEN <<".", "5">> ELSE <<>>)

isValidId(idString) ==
    LET id == parseInt(idString)
    IN  ~isNaN(id) /\ GreaterThanZero(id) /\ NumToString(id) = idString

\* values a JSON body field can hold
Undefined == [t |-> "undefined"]
Null == [t |-> "null"]
StrVal(s) == [t |-> "string", v |-> s]

\* !value
Falsy(v) ==
    \/ v.t \in {"undefined", "null"}
    \/ v.t = "string" /\ v.v = <<>>
    \/ v.t = "number" /\ (v.kind = "nan" \/ IsZero(v))

\* Number.isInteger(value)
NumberIsInteger(v) == v.t = "number" /\ v.kind = "int"

\* value <= 0 for a number
LessOrEqualZero(v) == v.t = "number" /\ v.kind # "nan" /\ (v.neg \/ IsZero(v))

(***************************************************************************)
(* PostgreSQL: the integer type of the id columns                          *)
(***************************************************************************)
Int4MaxDigits == <<2, 1, 4, 7, 4, 8, 3, 6, 4, 7>>

RECURSIVE LexLeq(_, _)
LexLeq(a, b) ==
    IF a = <<>> THEN TRUE
    ELSE IF Head(a) < Head(b) THEN TRUE
    ELSE IF Head(a) > Head(b) THEN FALSE
    ELSE LexLeq(Tail(a), Tail(b))

RECURSIVE DigitsToNat(_)
DigitsToNat(d) ==
    IF d = <<>> THEN 0 ELSE 10 * DigitsToNat(SubSeq(d, 1, Len(d) - 1)) + d[Len(d)]

RECURSIVE NatToDigits(_)
NatToDigits(n) ==
    IF n < 10 THEN <<n>> ELSE NatToDigits(n \div 10) \o <<n % 10>>

\* the text of a query parameter: pg sends a string as it is and a number
\* as String(number)
ParamText(v) == IF v.t = "string" THEN v.v ELSE NumToString(v)

IsIntegerText(s) ==
    LET body == IF s # <<>> /\ Head(s) \in {"-", "+"} THEN Tail(s) ELSE s
    IN  body # <<>> /\ \A i \in 1..Len(body) : IsDigitChar(body[i])

\* The parameter of "WHERE id = $1" and of the INSERT is parsed as a 32-bit
\* integer: text that is no integer fails with 22P02, an integer outside the
\* range fails with 22003.
Int4In(s) ==
    IF ~IsIntegerText(s) THEN [ok |-> FALSE, code |-> "22P02", val |-> 0]
    ELSE LET neg  == Head(s) = "-"
             body == IF Head(s) \in {"-", "+"} THEN Tail(s) ELSE s
             mag  == StripZeros(DigitPrefix(body))
             fits == \/ Len(mag) < Len(Int4MaxDigits)
                     \/ Len(mag) = Len(Int4MaxDigits) /\ LexLeq(mag, Int4MaxDigits)
         IN  IF ~fits THEN [ok |-> FALSE, code |-> "22003", val |-> 0]
             ELSE [ok |-> TRUE, code |-> "",
                   val |-> IF neg THEN 0 - DigitsToNat(mag) ELSE DigitsToNat(mag)]

\* the character U+0000, which a JSON string can carry ("\\u0000")
NulChar == "\\u0000"

\* The parameters of the INSERT into the TEXT columns: the server refuses
\* text that holds the character U+0000 with 22021 when it binds the
\* parameter, before the statement runs.
TextIn(s) ==
    IF \E i \in 1..Len(s) : s[i] = NulChar
    THEN [ok |-> FALSE, code |-> "22021"]
    ELSE [ok |-> TRUE, code |-> ""]

(***************************************************************************)
(* PostgreSQL: the three tables and the statements the handlers send       *)
(***************************************************************************)
NoError == [code |-> "", constraint |-> ""]

DbError(code, constraint) == [code |-> code, constraint |-> constraint]

QueryOk(rows) == [error |-> NoError, rows |-> rows]

QueryFailed(code, constraint) == [error |-> DbError(code, constraint), rows |-> <<>>]

Failed(result) == result.error # NoError

RECURSIVE OrderById_Descending(_)
OrderById_Descending(rows) ==
    IF rows = {} THEN <<>>
    ELSE LET first == CHOOSE x \in rows : \A y \in rows : x.id >= y.id
         IN  <<first>> \o OrderById_Descending(rows \ {first})

\* ORDER BY id over rows with pairwise different identifiers
RECURSIVE OrderById(_)
OrderById(rows) ==
    IF rows = {} THEN <<>>
    ELSE LET first == CHOOSE x \in rows : \A y \in rows : x.id <= y.id
         IN  <<first>> \o OrderById(rows \ {first})

\* "SELECT id, name, duration_ms FROM tracks ORDER BY id"
SelectTracks == QueryOk(OrderById(tracks))

\* "SELECT id, name, description FROM playlists ORDER BY id"
SelectPlaylists == QueryOk(OrderById(playlists))

\* "SELECT ... FROM tracks WHERE id = $1"
SelectTrackById(param) ==
    LET n == Int4In(ParamText(param))
    IN  IF ~n.ok THEN QueryFailed(n.code, "")
        ELSE QueryOk(OrderById({t \in tracks : t.id = n.val}))

\* "SELECT ... FROM playlists WHERE id = $1"
SelectPlaylistById(param) ==
    LET n == Int4In(ParamText(param))
    IN  IF ~n.ok THEN QueryFailed(n.code, "")
        ELSE QueryOk(OrderById({p \in playlists : p.id = n.val}))

JoinRows_FirstOnly(pts) ==
    IF pts = {} THEN <<>>
    ELSE LET first == CHOOSE x \in pts : \A y \in pts :
                          \/ x.track_id < y.track_id
                          \/ x.track_id = y.track_id /\ x.id <= y.id
         IN  OrderById({t \in tracks : t.id = first.track_id})

\* the rows of the join, one per association of the playlist, ORDER BY t.id
RECURSIVE JoinRows(_)
JoinRows(pts) ==
    IF pts = {} THEN <<>>
    ELSE LET first == CHOOSE x \in pts : \A y \in pts :
                          \/ x.track_id < y.track_id
                          \/ x.track_id = y.track_id /\ x.id <= y.id
             joined == OrderById({t \in tracks : t.id = first.track_id})
         IN  joined \o JoinRows(pts \ {first})

\* "SELECT t.id, t.name, t.duration_ms FROM tracks t INNER JOIN
\*  playlists_tracks pt ON t.id = pt.track_id WHERE pt.playlist_id = $1
\*  ORDER BY t.id"
SelectTracksOfPlaylist(param) ==
    LET n == Int4In(ParamText(param))
    IN  IF ~n.ok THEN QueryFailed(n.code, "")
        ELSE QueryOk(JoinRows({pt \in playlists_tracks : pt.playlist_id = n.val}))

\* The constraints of playlists_tracks, in the order PostgreSQL raises them
\* for a row: the primary key, UNIQUE(playlist_id, track_id), then the two
\* foreign keys.
PrimaryKeyViolated(row) == \E pt \in playlists_tracks : pt.id = row.id

PairUniqueViolated_Never(row) == FALSE

PairUniqueViolated(row) ==
    \E pt \in playlists_tracks :
        pt.playlist_id = row.playlist_id /\ pt.track_id = row.track_id

PlaylistKeyViolated(row) == ~\E p \in playlists : p.id = row.playlist_id

TrackKeyViolated(row) == ~\E t \in tracks : t.id = row.track_id

CheckAssociation_NoForeignKeys(row) ==
    IF PrimaryKeyViolated(row)
    THEN DbError("23505", "playlists_tracks_pkey")
    ELSE IF PairUniqueViolated(row)
    THEN DbError("23505", "playlists_tracks_playlist_id_track_id_key")
    ELSE NoError

CheckAssociation_NoPairUnique(row) ==
    IF PrimaryKeyViolated(row)
    THEN DbError("23505", "playlists_tracks_pkey")
    ELSE IF PlaylistKeyViolated(row)
    THEN DbError("23503", "playlists_tracks_playlist_id_fkey")
    ELSE IF TrackKeyViolated(row)
    THEN DbError("23503", "playlists_tracks_track_id_fkey")
    ELSE NoError

CheckAssociation(row) ==
    IF PrimaryKeyViolated(row)
    THEN DbError("23505", "playlists_tracks_pkey")
    ELSE IF PairUniqueViolated(row)
    THEN DbError("23505", "playlists_tracks_playlist_id_track_id_key")
    ELSE IF PlaylistKeyViolated(row)
    THEN DbError("23503", "playlists_tracks_playlist_id_fkey")
    ELSE IF TrackKeyViolated(row)
    THEN DbError("23503", "playlists_tracks_track_id_fkey")
    ELSE NoError

\* "INSERT INTO playlists_tracks (playlist_id, track_id) VALUES ($1, $2)
\*  RETURNING id, playlist_id, track_id": the result, given the identifier
\* the sequence hands out
InsertAssociationResult(newId, playlistParam, trackParam) ==
    LET p == Int4In(ParamText(playlistParam))
        t == Int4In(ParamText(trackParam))
        row == [id |-> newId, playlist_id |-> p.val, track_id |-> t.val]
    IN  IF ~p.ok THEN QueryFailed(p.code, "")
        ELSE IF ~t.ok THEN QueryFailed(t.code, "")
        ELSE IF CheckAssociation(row) # NoError
        THEN [error |-> CheckAssociation(row), rows |-> <<>>]
        ELSE QueryOk(<<row>>)

CascadePlaylist_All(id) == {}

\* ON DELETE CASCADE of playlists_tracks.playlist_id
CascadePlaylist(id) == {pt \in playlists_tracks : pt.playlist_id # id}

\* ON DELETE CASCADE of playlists_tracks.track_id
CascadeTrack(id) == {pt \in playlists_tracks : pt.track_id # id}

(***************************************************************************)
(* Requests and responses                                                  *)
(***************************************************************************)
NoJson == [shape |-> "none", error |-> "", rows |-> <<>>]

\* res.status(status).json({ error: message })
sendError(status, message) ==
    [status |-> status,
     json |-> [shape |-> "error", error |-> message, rows |-> <<>>]]

\* res.status(status).json(row)
SendObject(status, row) ==
    [status |-> status,
     json |-> [shape |-> "object", error |-> "", rows |-> <<row>>]]

\* res.status(status).json(rows)
SendArray(status, rows) ==
    [status |-> status,
     json |-> [shape |-> "array", error |-> "", rows |-> rows]]

NoResponse == [status |-> 0, json |-> NoJson]

\* req.body: absent, or an object whose missing fields read as undefined
NoBody == [present |-> FALSE, trackId |-> Undefined,
           name |-> Undefined, description |-> Undefined]

TrackBody(trackId) == [present |-> TRUE, trackId |-> trackId,
                       name |-> Undefined, description |-> Undefined]

PlaylistBody(name, description) ==
    [present |-> TRUE, trackId |-> Undefined,
     name |-> name, description |-> description]

\* A request slot.  op, id, body: the request; pc: where its handler is
\* suspended; resp: the response sent.  The other fields record history:
\* q the number of storage queries issued, sent the number of responses
\* sent, err the storage error the handler caught, arrAssoc whether the pair an add-track request names was
\* associated when the request arrived (recorded only in the specifications
\* that observe arrivals), rivals the slots waiting to execute
\* the same insert when this request executed its insert, preAssoc whether
\* the pair was associated when this request executed its insert.
Idle == [op |-> "idle", id |-> <<>>, body |-> NoBody, pc |-> "idle",
         resp |-> NoResponse, q |-> 0, sent |-> 0, err |-> NoError,
         arrAssoc |-> FALSE, rivals |-> {}, preAssoc |-> FALSE]

\* a stored identifier as a JavaScript number and as the text of a path
IdNumber(n) == IntNum(FALSE, NatToDigits(n))

IdText(n) == NumToString(IdNumber(n))

\* the stored associations of the pair (playlist, track) that a path
\* identifier and a trackId name
PairRows(id, trackId) ==
    {pt \in playlists_tracks :
        IdText(pt.playlist_id) = id /\ IdNumber(pt.track_id) = trackId}

Associated(id, trackId) == PairRows(id, trackId) # {}

\* a request takes the first free slot
FirstFree(r) == reqs[r].pc = "idle" /\ \A s \in Slots : s < r => reqs[s].pc # "idle"

Arrive(op, id, body) == [Idle EXCEPT !.op = op, !.id = id, !.body = body]

\* res.status(...).json(...) and the return of the handler
Respond(rq, resp) ==
    [rq EXCEPT !.pc = "done", !.resp = resp, !.sent = rq.sent + 1]

\* the handler awaits a storage query
Await(rq, pc) == [rq EXCEPT !.pc = pc, !.q = rq.q + 1]

Catch_Retry(rq, result, message) ==
    [rq EXCEPT !.q = rq.q + 1, !.err = result.error]

Catch_ExposeCode(rq, result, message) ==
    [rq EXCEPT !.pc = "done", !.err = result.error, !.sent = rq.sent + 1,
               !.resp = sendError(500, result.error.code)]

\* the catch block of a handler: a 500 with the handler's fixed message
Catch(rq, result, message) ==
    [rq EXCEPT !.pc = "done", !.err = result.error, !.sent = rq.sent + 1,
               !.resp = sendError(500, message)]

IdParam(rq) == StrVal(rq.id)

(***************************************************************************)
(* The route handlers, from one await to the next                          *)
(***************************************************************************)
\* GET /tracks
GetTracksBegin(rq) == Await(rq, "select")

GetTracksAfterSelect(rq, result) ==
    IF Failed(result)
    THEN Catch(rq, result, "Internal server error while fetching tracks")
    ELSE Respond(rq, SendArray(200, result.rows))

\* GET /tracks/:id
GetTrackBegin(rq) ==
    IF ~isValidId(rq.id)
    THEN Respond(rq, sendError(400, "Track ID must be a valid positive integer"))
    ELSE Await(rq, "select")

GetTrackAfterSelect(rq, result) ==
    IF Failed(result)
    THEN Catch(rq, result, "Internal server error while fetching track")
    ELSE IF Len(result.rows) = 0
    THEN Respond(rq, sendError(404, "Track not found"))
    ELSE Respond(rq, SendObject(200, result.rows[1]))

\* GET /playlists
GetPlaylistsBegin(rq) == Await(rq, "select")

GetPlaylistsAfterSelect(rq, result) ==
    IF Failed(result)
    THEN Catch(rq, result, "Internal server error while fetching playlists")
    ELSE Respond(rq, SendArray(200, result.rows))

\* POST /playlists
CreatePlaylistBegin(rq) ==
    IF ~rq.body.present
    THEN Respond(rq, sendError(400, "Request body is required"))
    ELSE IF Falsy(rq.body.name) \/ Falsy(rq.body.description)
    THEN Respond(rq, sendError(400, "Name and description are required fields"))
    ELSE IF rq.body.name.t # "string" \/ rq.body.description.t # "string"
    THEN Respond(rq, sendError(400, "Name and description must be strings"))
    ELSE Await(rq, "insert")

CreatePlaylistAfterInsert(rq, result) ==
    IF Failed(result)
    THEN Catch(rq, result, "Internal server error while creating playlist")
    ELSE Respond(rq, SendObject(201, result.rows[1]))

\* GET /playlists/:id
GetPlaylistBegin(rq) ==
    IF ~isValidId(rq.id)
    THEN Respond(rq, sendError(400, "Playlist ID must be a valid positive integer"))
    ELSE Await(rq, "select")

GetPlaylistAfterSelect(rq, result) ==
    IF Failed(result)
    THEN Catch(rq, result, "Internal server error while fetching playlist")
    ELSE IF Len(result.rows) = 0
    THEN Respond(rq, sendError(404, "Playlist not found"))
    ELSE Respond(rq, SendObject(200, result.rows[1]))

\* GET /playlists/:id/tracks
GetPlaylistTracksBegin(rq) ==
    IF ~isValidId(rq.id)
    THEN Respond(rq, sendError(400, "Playlist ID must be a valid positive integer"))
    ELSE Await(rq, "playlistCheck")

GetPlaylistTracksAfterCheck(rq, result) ==
    IF Failed(result)
    THEN Catch(rq, result, "Internal server error while fetching playlist tracks")
    ELSE IF Len(result.rows) = 0
    THEN Respond(rq, sendError(404, "Playlist not found"))
    ELSE Await(rq, "select")

GetPlaylistTracksAfterSelect(rq, result) ==
    IF Failed(result)
    THEN Catch(rq, result, "Internal server error while fetching playlist tracks")
    ELSE Respond(rq, SendArray(200, result.rows))

AddTrackBegin_NoTrackIdCheck(rq) ==
    IF ~isValidId(rq.id)
    THEN Respond(rq, sendError(400, "Playlist ID must be a valid positive integer"))
    ELSE IF ~rq.body.present
    THEN Respond(rq, sendError(400, "Request body is required"))
    ELSE IF rq.body.trackId.t \in {"undefined", "null"}
    THEN Respond(rq, sendError(400, "trackId is required in request body"))
    ELSE Await(rq, "playlistCheck")

\* POST /playlists/:id/tracks
AddTrackBegin(rq) ==
    IF ~isValidId(rq.id)
    THEN Respond(rq, sendError(400, "Playlist ID must be a valid positive integer"))
    ELSE IF ~rq.body.present
    THEN Respond(rq, sendError(400, "Request body is required"))
    ELSE IF rq.body.trackId.t \in {"undefined", "null"}
    THEN Respond(rq, sendError(400, "trackId is required in request body"))
    ELSE IF ~NumberIsInteger(rq.body.trackId) \/ LessOrEqualZero(rq.body.trackId)
    THEN Respond(rq, sendError(400, "trackId must be a positive integer"))
    ELSE Await(rq, "playlistCheck")

AddTrackAfterPlaylistCheck(rq, result) ==
    IF Failed(result)
    THEN Catch(rq, result, "Internal server error while adding track to playlist")
    ELSE IF Len(result.rows) = 0
    THEN Respond(rq, sendError(404, "Playlist not found"))
    ELSE Await(rq, "trackCheck")

AddTrackAfterTrackCheck(rq, result) ==
    IF Failed(result)
    THEN Catch(rq, result, "Internal server error while adding track to playlist")
    ELSE IF Len(result.rows) = 0
    THEN Respond(rq, sendError(400, "Track does not exist"))
    ELSE Await(rq, "insert")

AddTrackAfterInsert_ForeignKeyIs404(rq, result) ==
    IF ~Failed(result)
    THEN Respond(rq, SendObject(201, result.rows[1]))
    ELSE IF result.error.code = "23505"
    THEN [Respond(rq, sendError(400, "Track is already in this playlist"))
             EXCEPT !.err = result.error]
    ELSE IF result.error.code = "23503"
    THEN [Respond(rq, sendError(404, "Playlist not found"))
             EXCEPT !.err = result.error]
    ELSE Catch(rq, result, "Internal server error while adding track to playlist")

AddTrackAfterInsert_NoReturn(rq, result) ==
    IF ~Failed(result)
    THEN Respond(rq, SendObject(201, result.rows[1]))
    ELSE IF result.error.code = "23505"
    THEN Catch(Respond(rq, sendError(400, "Track is already in this playlist")),
               result, "Internal server error while adding track to playlist")
    ELSE Catch(rq, result, "Internal server error while adding track to playlist")

AddTrackAfterInsert_NoDuplicateCheck(rq, result) ==
    IF ~Failed(result)
    THEN Respond(rq, SendObject(201, result.rows[1]))
    ELSE Catch(rq, result, "Internal server error while adding track to playlist")

\* the inner try/catch around the INSERT, then the outer catch
AddTrackAfterInsert(rq, result) ==
    IF ~Failed(result)
    THEN Respond(rq, SendObject(201, result.rows[1]))
    ELSE IF result.error.code = "23505"
    THEN [Respond(rq, sendError(400, "Track is already in this playlist"))
             EXCEPT !.err = result.error]
    ELSE Catch(rq, result, "Internal server error while adding track to playlist")

(***************************************************************************)
(* Inputs and the initial state                                            *)
(***************************************************************************)
\* 2147483648, the first identifier beyond the range of an integer column
BeyondInt4Digits == <<2, 1, 4, 7, 4, 8, 3, 6, 4, 8>>

PathIds == {<<"1">>, <<"2">>, <<"0">>, NumToString(IntNum(FALSE, BeyondInt4Digits))}

TrackIdValues ==
    {Undefined, Null, IntNum(FALSE, <<0>>), FracNum(FALSE, <<1>>),
     IntNum(TRUE, <<1>>), StrVal(<<"1">>),
     IntNum(FALSE, <<1>>), IntNum(FALSE, <<2>>), IntNum(FALSE, <<3>>),
     IntNum(FALSE, BeyondInt4Digits)}

AddTrackBodies == {NoBody} \cup {TrackBody(v) : v \in TrackIdValues}

NameValues ==
    {Undefined, Null, StrVal(<<>>), StrVal(<<"X">>), StrVal(<<NulChar>>),
     IntNum(FALSE, <<5>>)}

DescriptionValues ==
    {Undefined, StrVal(<<>>), StrVal(<<"D">>), IntNum(FALSE, <<5>>)}

PlaylistBodies ==
    {NoBody} \cup {PlaylistBody(n, d) : n \in NameValues, d \in DescriptionValues}

\* the characters of the identifier strings given to isValidId: digits, the
\* signs, the decimal point, white space, letters
IdAlphabet == {"0", "1", "9", "-", "+", ".", " ", "a", "e"}

\* 10^21, the least integer that toString() prints in exponential notation
TenTo21Text == <<"1">> \o [i \in 1..21 |-> "0"]

\* every string over IdAlphabet up to MaxIdLen characters (the empty string
\* is isValidId called on ""), and 10^21 written out in full
IdStrings == UNION {[1..k -> IdAlphabet] : k \in 0..MaxIdLen} \cup {TenTo21Text}

\* the well-formed requests on identifiers the columns can hold, for the
\* specifications with two requests in flight
SmallPathIds == {<<"1">>, <<"2">>}

SmallTrackBodies == {TrackBody(IntNum(FALSE, <<1>>)), TrackBody(IntNum(FALSE, <<2>>))}

ValidPlaylistBodies == {PlaylistBody(StrVal(<<"X">>), StrVal(<<"D">>))}

\* the rows the seed script leaves behind, cut down to two tracks and one
\* playlist
SeedTracks == {[id |-> 1, name |-> <<"A">>, duration_ms |-> 355000],
               [id |-> 2, name |-> <<"B">>, duration_ms |-> 356000]}

SeedPlaylists == {[id |-> 1, name |-> <<"S">>, description |-> <<"D">>]}

Init ==
    /\ tracks = SeedTracks
    /\ playlists = SeedPlaylists
    /\ playlists_tracks = {}
    /\ playlists_id_seq = Cardinality(SeedPlaylists)
    /\ playlists_tracks_id_seq = 0
    /\ reqs = [r \in Slots |-> Idle]

db == <<playlists, tracks, playlists_tracks, playlists_id_seq,
        playlists_tracks_id_seq>>

At(r, op, pc) == reqs[r].op = op /\ reqs[r].pc = pc

(***************************************************************************)
(* Actions: a request arrives, a storage query of a handler executes       *)
(***************************************************************************)
GetTracks(r) ==
    /\ FirstFree(r)
    /\ reqs' = [reqs EXCEPT ![r] = GetTracksBegin(Arrive("getTracks", <<>>, NoBody))]
    /\ UNCHANGED db

GetTracksSelect(r) ==
    /\ At(r, "getTracks", "select")
    /\ reqs' = [reqs EXCEPT ![r] = GetTracksAfterSelect(reqs[r], SelectTracks)]
    /\ UNCHANGED db

GetTrack(r, ids) ==
    /\ FirstFree(r)
    /\ \E id \in ids :
          reqs' = [reqs EXCEPT ![r] = GetTrackBegin(Arrive("getTrack", id, NoBody))]
    /\ UNCHANGED db

GetTrackSelect(r) ==
    /\ At(r, "getTrack", "select")
    /\ reqs' = [reqs EXCEPT ![r] =
                  GetTrackAfterSelect(reqs[r], SelectTrackById(IdParam(reqs[r])))]
    /\ UNCHANGED db

GetPlaylists(r) ==
    /\ FirstFree(r)
    /\ reqs' = [reqs EXCEPT ![r] =
                  GetPlaylistsBegin(Arrive("getPlaylists", <<>>, NoBody))]
    /\ UNCHANGED db

GetPlaylistsSelect(r) ==
    /\ At(r, "getPlaylists", "select")
    /\ reqs' = [reqs EXCEPT ![r] = GetPlaylistsAfterSelect(reqs[r], SelectPlaylists)]
    /\ UNCHANGED db

CreatePlaylist(r, bodies) ==
    /\ FirstFree(r)
    /\ \E body \in bodies :
          reqs' = [reqs EXCEPT ![r] =
                    CreatePlaylistBegin(Arrive("createPlaylist", <<>>, body))]
    /\ UNCHANGED db

\* "INSERT INTO playlists (name, description) VALUES ($1, $2) RETURNING ..."
CreatePlaylistInsert(r) ==
    /\ At(r, "createPlaylist", "insert")
    /\ LET name        == TextIn(ParamText(reqs[r].body.name))
           description == TextIn(ParamText(reqs[r].body.description))
           row == [id |-> playlists_id_seq + 1,
                   name |-> ParamText(reqs[r].body.name),
                   description |-> ParamText(reqs[r].body.description)]
       IN  IF ~name.ok \/ ~description.ok
           THEN /\ reqs' = [reqs EXCEPT ![r] =
                     CreatePlaylistAfterInsert(reqs[r],
                         QueryFailed(IF ~name.ok THEN name.code
                                     ELSE description.code, ""))]
                /\ UNCHANGED <<playlists, playlists_id_seq>>
           ELSE /\ playlists_id_seq < MaxPlaylistSeq
                /\ playlists' = playlists \cup {row}
                /\ playlists_id_seq' = playlists_id_seq + 1
                /\ reqs' = [reqs EXCEPT ![r] =
                              CreatePlaylistAfterInsert(reqs[r], QueryOk(<<row>>))]
    /\ UNCHANGED <<tracks, playlists_tracks, playlists_tracks_id_seq>>

GetPlaylist(r, ids) ==
    /\ FirstFree(r)
    /\ \E id \in ids :
          reqs' = [reqs EXCEPT ![r] =
                    GetPlaylistBegin(Arrive("getPlaylist", id, NoBody))]
    /\ UNCHANGED db

GetPlaylistSelect(r) ==
    /\ At(r, "getPlaylist", "select")
    /\ reqs' = [reqs EXCEPT ![r] =
                  GetPlaylistAfterSelect(reqs[r], SelectPlaylistById(IdParam(reqs[r])))]
    /\ UNCHANGED db

GetPlaylistTracks(r, ids) ==
    /\ FirstFree(r)
    /\ \E id \in ids :
          reqs' = [reqs EXCEPT ![r] =
                    GetPlaylistTracksBegin(Arrive("getPlaylistTracks", id, NoBody))]
    /\ UNCHANGED db

GetPlaylistTracksCheck(r) ==
    /\ At(r, "getPlaylistTracks", "playlistCheck")
    /\ reqs' = [reqs EXCEPT ![r] =
                  GetPlaylistTracksAfterCheck(reqs[r],
                                              SelectPlaylistById(IdParam(reqs[r])))]
    /\ UNCHANGED db

GetPlaylistTracksSelect(r) ==
    /\ At(r, "getPlaylistTracks", "select")
    /\ reqs' = [reqs EXCEPT ![r] =
                  GetPlaylistTracksAfterSelect(reqs[r],
                                               SelectTracksOfPlaylist(IdParam(reqs[r])))]
    /\ UNCHANGED db

AddTrack(r, ids, bodies, observed) ==
    /\ FirstFree(r)
    /\ \E id \in ids, body \in bodies :
          reqs' = [reqs EXCEPT ![r] =
                    AddTrackBegin([Arrive("addTrack", id, body) EXCEPT
                        !.arrAssoc = observed /\ Associated(id, body.trackId)])]
    /\ UNCHANGED db

AddTrackPlaylistCheck(r) ==
    /\ At(r, "addTrack", "playlistCheck")
    /\ reqs' = [reqs EXCEPT ![r] =
                  AddTrackAfterPlaylistCheck(reqs[r],
                                             SelectPlaylistById(IdParam(reqs[r])))]
    /\ UNCHANGED db

AddTrackTrackCheck(r) ==
    /\ At(r, "addTrack", "trackCheck")
    /\ reqs' = [reqs EXCEPT ![r] =
                  AddTrackAfterTrackCheck(reqs[r],
                                          SelectTrackById(reqs[r].body.trackId))]
    /\ UNCHANGED db

AssociationsAfter_OnePerPlaylist(result) ==
    IF Failed(result) THEN playlists_tracks
    ELSE {pt \in playlists_tracks : pt.playlist_id # result.rows[1].playlist_id}
         \cup {result.rows[1]}

\* the association table after the INSERT: the new row is added when the
\* statement succeeds and nothing changes when it fails
AssociationsAfter(result) ==
    IF Failed(result) THEN playlists_tracks
    ELSE playlists_tracks \cup {result.rows[1]}

SameInsert(a, b) ==
    /\ reqs[a].id = reqs[b].id
    /\ reqs[a].body.trackId = reqs[b].body.trackId

\* the INSERT of add-track: the sequence value is spent whether or not the
\* row passes the constraints
AddTrackInsert(r) ==
    /\ At(r, "addTrack", "insert")
    /\ playlists_tracks_id_seq < MaxAssocSeq
    /\ LET result == InsertAssociationResult(playlists_tracks_id_seq + 1,
                                             IdParam(reqs[r]), reqs[r].body.trackId)
       IN  /\ playlists_tracks' = AssociationsAfter(result)
           /\ playlists_tracks_id_seq' = playlists_tracks_id_seq + 1
           /\ reqs' = [reqs EXCEPT ![r] =
                  [AddTrackAfterInsert(reqs[r], result) EXCEPT
                     !.rivals = {s \in Slots \ {r} :
                                   At(s, "addTrack", "insert") /\ SameInsert(r, s)},
                     !.preAssoc = Associated(reqs[r].id, reqs[r].body.trackId)]]
    /\ UNCHANGED <<playlists, tracks, playlists_id_seq>>

\* the response is out and the slot takes the next request
Recycle(r) ==
    /\ reqs[r].pc = "done"
    /\ reqs' = [s \in Slots |->
                  IF s = r THEN Idle
                  ELSE [reqs[s] EXCEPT !.rivals = @ \ {r}]]
    /\ UNCHANGED db

(***************************************************************************)
(* Actions on the storage that bypass the API                              *)
(***************************************************************************)
\* DELETE FROM playlists WHERE id = ...
DeletePlaylist ==
    /\ \E p \in playlists :
          /\ playlists' = playlists \ {p}
          /\ playlists_tracks' = CascadePlaylist(p.id)
    /\ UNCHANGED <<tracks, playlists_id_seq, playlists_tracks_id_seq, reqs>>

\* DELETE FROM tracks WHERE id = ...
DeleteTrack ==
    /\ \E t \in tracks :
          /\ tracks' = tracks \ {t}
          /\ playlists_tracks' = CascadeTrack(t.id)
    /\ UNCHANGED <<playlists, playlists_id_seq, playlists_tracks_id_seq, reqs>>

\* INSERT INTO playlists_tracks (id, playlist_id, track_id) VALUES (...): a
\* row written with an explicit identifier leaves the sequence where it was
DirectInsertAssociation ==
    /\ \E id \in 1..MaxAssocSeq, p \in playlists, t \in tracks :
          LET row == [id |-> id, playlist_id |-> p.id, track_id |-> t.id]
          IN  /\ CheckAssociation(row) = NoError
              /\ playlists_tracks' = playlists_tracks \cup {row}
    /\ UNCHANGED <<playlists, tracks, playlists_id_seq, playlists_tracks_id_seq, reqs>>

\* the rejection of an awaited query when the connection is lost
ConnectionLost == QueryFailed("08006", "")

Continue(rq, result) ==
    CASE rq.op = "getTracks" -> GetTracksAfterSelect(rq, result)
      [] rq.op = "getTrack" -> GetTrackAfterSelect(rq, result)
      [] rq.op = "getPlaylists" -> GetPlaylistsAfterSelect(rq, result)
      [] rq.op = "createPlaylist" -> CreatePlaylistAfterInsert(rq, result)
      [] rq.op = "getPlaylist" -> GetPlaylistAfterSelect(rq, result)
      [] rq.op = "getPlaylistTracks" /\ rq.pc = "playlistCheck" ->
             GetPlaylistTracksAfterCheck(rq, result)
      [] rq.op = "getPlaylistTracks" /\ rq.pc = "select" ->
             GetPlaylistTracksAfterSelect(rq, result)
      [] rq.op = "addTrack" /\ rq.pc = "playlistCheck" ->
             AddTrackAfterPlaylistCheck(rq, result)
      [] rq.op = "addTrack" /\ rq.pc = "trackCheck" ->
             AddTrackAfterTrackCheck(rq, result)
      [] rq.op = "addTrack" /\ rq.pc = "insert" ->
             AddTrackAfterInsert(rq, result)

\* the rejection of an awaited query when the server is shut down
AdminShutdown == QueryFailed("57P01", "")

StorageFailures == {ConnectionLost, AdminShutdown}

QueryFails(r) ==
    /\ reqs[r].pc \notin {"idle", "done"}
    /\ \E failure \in StorageFailures :
          reqs' = [reqs EXCEPT ![r] = Continue(reqs[r], failure)]
    /\ UNCHANGED db

(***************************************************************************)
(* Specifications                                                          *)
(***************************************************************************)
Reads(r, ids) ==
    \/ GetTracks(r) \/ GetTracksSelect(r)
    \/ GetTrack(r, ids) \/ GetTrackSelect(r)
    \/ GetPlaylists(r) \/ GetPlaylistsSelect(r)
    \/ GetPlaylist(r, ids) \/ GetPlaylistSelect(r)
    \/ GetPlaylistTracks(r, ids) \/ GetPlaylistTracksCheck(r)
    \/ GetPlaylistTracksSelect(r)

Writes(r, ids, trackBodies, playlistBodies, observed) ==
    \/ CreatePlaylist(r, playlistBodies) \/ CreatePlaylistInsert(r)
    \/ AddTrack(r, ids, trackBodies, observed) \/ AddTrackPlaylistCheck(r)
    \/ AddTrackTrackCheck(r) \/ AddTrackInsert(r)

\* two slots: well-formed create-playlist and add-track requests, arrivals
\* observed
NextWrites ==
    \E r \in Slots :
        \/ Writes(r, SmallPathIds, SmallTrackBodies, ValidPlaylistBodies, TRUE)
        \/ Recycle(r)

SpecWrites == Init /\ [][NextWrites]_vars

\* two slots: well-formed create-playlist and add-track requests, and direct
\* deletions in storage
Next ==
    \/ \E r \in Slots :
          \/ Writes(r, SmallPathIds, SmallTrackBodies, ValidPlaylistBodies, FALSE)
          \/ Recycle(r)
    \/ DeletePlaylist \/ DeleteTrack

Spec == Init /\ [][Next]_vars

\* one slot: every request of the API on every input
NextApi ==
    \E r \in {1} :
        \/ Reads(r, PathIds)
        \/ Writes(r, PathIds, AddTrackBodies, PlaylistBodies, FALSE)
        \/ Recycle(r)

SpecApi == Init /\ [][NextApi]_vars

\* one slot: every request of SpecApi, and each awaited query may fail
NextFaults ==
    \E r \in {1} :
        \/ Reads(r, PathIds)
        \/ Writes(r, PathIds, AddTrackBodies, PlaylistBodies, FALSE)
        \/ Recycle(r)
        \/ QueryFails(r)

SpecFaults == Init /\ [][NextFaults]_vars

\* GET /tracks/:id applies isValidId to every identifier string
NextValidId ==
    \E r \in {1} : GetTrack(r, IdStrings) \/ GetTrackSelect(r) \/ Recycle(r)

SpecValidId == Init /\ [][NextValidId]_vars

\* one slot: every request of the API, direct writes to storage and failing
\* queries
NextStorage ==
    \/ \E r \in {1} :
          \/ Reads(r, PathIds)
          \/ Writes(r, PathIds, AddTrackBodies, PlaylistBodies, FALSE)
          \/ Recycle(r) \/ QueryFails(r)
    \/ DeletePlaylist \/ DeleteTrack \/ DirectInsertAssociation

SpecStorage == Init /\ [][NextStorage]_vars

(***************************************************************************)
(* Properties                                                              *)
(***************************************************************************)
Done(r) == reqs[r].pc = "done"

Status(r) == reqs[r].resp.status

ErrorMessage(r) == reqs[r].resp.json.error

Duplicate(r) ==
    Status(r) = 400 /\ ErrorMessage(r) = "Track is already in this playlist"

\* the request of slot r is an add-track request whose insert has executed
Inserted(r) == Done(r) /\ reqs[r].op = "addTrack" /\ reqs[r].q = 3

PositiveInteger(v) == NumberIsInteger(v) /\ ~LessOrEqualZero(v)

\* C1: in every reachable state the association table holds at most one
\* association for any (playlist identifier, track identifier) pair.
C1_PairUnique ==
    \A a, b \in playlists_tracks :
        (a.playlist_id = b.playlist_id /\ a.track_id = b.track_id) => a = b

\* two add-track requests for the same pair were waiting to insert together;
\* one was created, the other refused, and the pair is stored
C1_Witness ==
    \E a, b \in Slots :
        /\ Inserted(a) /\ Inserted(b) /\ b \in reqs[a].rivals
        /\ Status(a) = 201 /\ Duplicate(b)
        /\ Associated(reqs[a].id, reqs[a].body.trackId)

\* C2 as stated: when two add-track requests for the same playlist and track
\* have both passed the existence checks before either inserts, exactly one
\* answers 201 and the other answers 400 "Track is already in this playlist".
C2_Original ==
    \A a, b \in Slots :
        (Inserted(a) /\ Inserted(b) /\ b \in reqs[a].rivals) =>
            \/ Status(a) = 201 /\ Duplicate(b)
            \/ Status(b) = 201 /\ Duplicate(a)

\* C2 amended: of two such requests, if the pair is not yet associated when
\* the first of them inserts, the first answers 201 and the other answers 400
\* with the duplicate message; if the pair is already associated both answer
\* 400 with the duplicate message; neither answers 500.
C2_Race ==
    \A a, b \in Slots :
        (Inserted(a) /\ Inserted(b) /\ b \in reqs[a].rivals) =>
            /\ ~reqs[a].preAssoc => Status(a) = 201 /\ Duplicate(b)
            /\ reqs[a].preAssoc => Duplicate(a) /\ Duplicate(b)
            /\ Status(a) # 500 /\ Status(b) # 500

C2_Witness ==
    \E a, b \in Slots :
        /\ Inserted(a) /\ Inserted(b) /\ b \in reqs[a].rivals
        /\ ~reqs[a].preAssoc
        /\ Status(a) = 201 /\ Duplicate(b)

\* C3: an add-track request whose insert finds the pair not yet associated
\* answers 201 with the row of the pair under an identifier no other
\* association has; an add-track request that arrives when the pair is
\* associated answers 400 with the duplicate message; after either the pair
\* has exactly one stored association.
C3_TwiceInSequence ==
    \A r \in Slots :
        LET rows == PairRows(reqs[r].id, reqs[r].body.trackId)
        IN  /\ (Inserted(r) /\ ~reqs[r].preAssoc) =>
                  /\ Status(r) = 201
                  /\ reqs[r].resp.json.shape = "object"
                  /\ rows = {reqs[r].resp.json.rows[1]}
                  /\ \A pt \in playlists_tracks :
                        pt.id = reqs[r].resp.json.rows[1].id =>
                            pt = reqs[r].resp.json.rows[1]
            /\ (Done(r) /\ reqs[r].arrAssoc) =>
                  /\ Duplicate(r)
                  /\ Cardinality(rows) = 1

\* the first request created the pair; the second, which arrived when the
\* pair was stored, was refused
C3_Witness ==
    \E a, b \in Slots :
        /\ a # b /\ Inserted(a) /\ Inserted(b) /\ SameInsert(a, b)
        /\ ~reqs[a].preAssoc /\ Status(a) = 201
        /\ reqs[b].arrAssoc /\ Duplicate(b)

\* C4: a storage failure is answered 400 only when it is the violation of
\* UNIQUE(playlist_id, track_id) raised by the insert of add-track; every
\* other storage failure is answered 500.  (A uniqueness violation of a row
\* whose pair is stored is counted as the pair's, whichever index raised it.)
C4_OnlyPairViolationIs400 ==
    \A r \in Slots :
        (Done(r) /\ reqs[r].err # NoError) =>
            IF /\ reqs[r].op = "addTrack" /\ reqs[r].q = 3
               /\ \/ reqs[r].err =
                        DbError("23505", "playlists_tracks_playlist_id_track_id_key")
                  \/ reqs[r].err.code = "23505" /\ reqs[r].preAssoc
            THEN Status(r) = 400
            ELSE Status(r) = 500

\* C5: an add-track request with the identifier of a stored playlist and a
\* positive-integer trackId that matches no stored track answers 400 "Track
\* does not exist" and creates no association.
C5_AbsentTrackIs400 ==
    \A r \in Slots :
        ( /\ Done(r) /\ reqs[r].op = "addTrack"
          /\ isValidId(reqs[r].id)
          /\ \E p \in playlists : IdText(p.id) = reqs[r].id
          /\ reqs[r].body.present /\ PositiveInteger(reqs[r].body.trackId)
          /\ ~\E t \in tracks : IdNumber(t.id) = reqs[r].body.trackId ) =>
            /\ Status(r) = 400
            /\ ErrorMessage(r) = "Track does not exist"
            /\ ~Associated(reqs[r].id, reqs[r].body.trackId)

\* C6: an add-track request with a well-formed playlist identifier that
\* matches no stored playlist and a valid trackId answers 404 "Playlist not
\* found" and creates no association.
C6_AbsentPlaylistIs404 ==
    \A r \in Slots :
        ( /\ Done(r) /\ reqs[r].op = "addTrack"
          /\ isValidId(reqs[r].id)
          /\ ~\E p \in playlists : IdText(p.id) = reqs[r].id
          /\ reqs[r].body.present /\ PositiveInteger(reqs[r].body.trackId) ) =>
            /\ Status(r) = 404
            /\ ErrorMessage(r) = "Playlist not found"
            /\ ~Associated(reqs[r].id, reqs[r].body.trackId)

\* C7: every stored association's playlist identifier is the identifier of
\* a stored playlist and its track identifier is the identifier of a stored
\* track.
C7_ReferencesExist ==
    \A pt \in playlists_tracks :
        /\ \E p \in playlists : p.id = pt.playlist_id
        /\ \E t \in tracks : t.id = pt.track_id

\* an insert was refused by a foreign key, because the playlist or the track
\* was deleted after the request's existence checks, while associations are
\* stored
C7_Witness ==
    \E r \in Slots :
        /\ Inserted(r) /\ reqs[r].err.code = "23503"
        /\ playlists_tracks # {}

\* C8: a step that removes a playlist removes exactly the associations of
\* that playlist and changes no track and no other playlist; a step that
\* removes a track removes exactly the associations of that track and
\* changes no playlist and no other track.
C8_DeleteFrame ==
    [][ /\ \A p \in playlists :
              p \notin playlists' =>
                  /\ playlists' = playlists \ {p}
                  /\ tracks' = tracks
                  /\ playlists_tracks' =
                         {pt \in playlists_tracks : pt.playlist_id # p.id}
        /\ \A t \in tracks :
              t \notin tracks' =>
                  /\ tracks' = tracks \ {t}
                  /\ playlists' = playlists
                  /\ playlists_tracks' =
                         {pt \in playlists_tracks : pt.track_id # t.id} ]_vars

\* the association a request created is gone with its playlist, while its
\* track and another association are still stored
C8_Witness ==
    \E r \in Slots :
        /\ Inserted(r) /\ Status(r) = 201
        /\ reqs[r].resp.json.rows[1] \notin playlists_tracks
        /\ ~\E p \in playlists : p.id = reqs[r].resp.json.rows[1].playlist_id
        /\ \E t \in tracks : t.id = reqs[r].resp.json.rows[1].track_id
        /\ playlists_tracks # {}

\* the tracks that have an association to the playlist of a path identifier
TracksOf(id) ==
    {t \in tracks : \E pt \in playlists_tracks :
                       IdText(pt.playlist_id) = id /\ pt.track_id = t.id}

\* C9: GET /playlists/:id/tracks with a well-formed identifier answers 404
\* when no playlist has that identifier; otherwise 200 with exactly the
\* tracks that have an association to the playlist, each once, in ascending
\* identifier order.
C9_TracksOfPlaylist ==
    \A r \in Slots :
        (Done(r) /\ reqs[r].op = "getPlaylistTracks" /\ isValidId(reqs[r].id)) =>
            LET rows == reqs[r].resp.json.rows
            IN  IF ~\E p \in playlists : IdText(p.id) = reqs[r].id
                THEN Status(r) = 404
                ELSE /\ Status(r) = 200
                     /\ reqs[r].resp.json.shape = "array"
                     /\ {rows[i] : i \in 1..Len(rows)} = TracksOf(reqs[r].id)
                     /\ \A i, j \in 1..Len(rows) : i < j => rows[i].id < rows[j].id

\* C10: on GET /tracks/:id, GET /playlists/:id, GET /playlists/:id/tracks
\* and POST /playlists/:id/tracks with a valid body, an identifier that
\* isValidId accepts and that matches no stored record of the addressed kind
\* yields 404.
C10_AbsentIs404 ==
    \A r \in Slots :
        ( /\ Done(r) /\ isValidId(reqs[r].id)
          /\ \/ /\ reqs[r].op = "getTrack"
                /\ ~\E t \in tracks : IdText(t.id) = reqs[r].id
             \/ /\ reqs[r].op \in {"getPlaylist", "getPlaylistTracks"}
                /\ ~\E p \in playlists : IdText(p.id) = reqs[r].id
             \/ /\ reqs[r].op = "addTrack"
                /\ reqs[r].body.present /\ PositiveInteger(reqs[r].body.trackId)
                /\ ~\E p \in playlists : IdText(p.id) = reqs[r].id ) =>
            Status(r) = 404

(***************************************************************************)
(* The identifier validator                                                *)
(***************************************************************************)
\* the decimal representation of a strictly positive integer: digits only,
\* at least one, the first not a zero
CanonicalPositiveDecimal(s) ==
    /\ s # <<>>
    /\ \A i \in 1..Len(s) : IsDigitChar(s[i])
    /\ s[1] # "0"

\* the handler's answer to an identifier isValidId rejects
RejectedId(r) ==
    reqs[r].resp = sendError(400, "Track ID must be a valid positive integer")

\* C11: isValidId accepts a string exactly when it is the decimal
\* representation of a strictly positive integer without leading zeros, sign,
\* decimal point, white space or any other extra character: GET /tracks/:id
\* rejects the identifier with its 400 exactly when the string is not one.
C11_AcceptsExactlyCanonical ==
    \A r \in Slots :
        Done(r) /\ reqs[r].op = "getTrack" =>
            (~RejectedId(r) <=> CanonicalPositiveDecimal(reqs[r].id))

(***************************************************************************)
(* Validation                                                              *)
(***************************************************************************)
\* the operations whose route has an :id parameter
IdOps == {"getTrack", "getPlaylist", "getPlaylistTracks", "addTrack"}

\* a body field that is missing, empty or not a string
MissingEmptyOrNonString(v) == v.t # "string" \/ v.v = <<>>

\* the request fails the validation of its route
FailsValidation(rq) ==
    \/ rq.op \in IdOps /\ ~CanonicalPositiveDecimal(rq.id)
    \/ /\ rq.op = "createPlaylist"
       /\ \/ ~rq.body.present
          \/ MissingEmptyOrNonString(rq.body.name)
          \/ MissingEmptyOrNonString(rq.body.description)
    \/ /\ rq.op = "addTrack"
       /\ \/ ~rq.body.present
          \/ rq.body.trackId.t \in {"undefined", "null"}
          \/ ~PositiveInteger(rq.body.trackId)

\* C12: a request that fails validation (a malformed path identifier on an
\* :id route, a POST /playlists or POST /playlists/:id/tracks body that is
\* missing or has an invalid field) is answered 400 without any storage query
\* having been issued.
C12_InvalidIs400WithoutQuery ==
    \A r \in Slots :
        reqs[r].op # "idle" /\ FailsValidation(reqs[r]) =>
            Done(r) /\ Status(r) = 400 /\ reqs[r].q = 0

\* an add-track request with a well-formed path identifier and a trackId that
\* is not an integer has been refused
C12_Witness ==
    \E r \in Slots :
        /\ Done(r) /\ reqs[r].op = "addTrack"
        /\ CanonicalPositiveDecimal(reqs[r].id)
        /\ reqs[r].body.present
        /\ reqs[r].body.trackId.t = "number" /\ reqs[r].body.trackId.kind = "frac"
        /\ Status(r) = 400 /\ reqs[r].q = 0

(***************************************************************************)
(* Creating playlists                                                      *)
(***************************************************************************)
NonEmptyString(v) == v.t = "string" /\ v.v # <<>>

\* the playlist a 201 carries
Created(r) == reqs[r].resp.json.rows[1]

\* C13: for any non-empty strings name and description, POST /playlists
\* answers 201 with a playlist whose name and description are the ones given
\* and whose id is a positive integer that the sequence has handed out to no
\* other playlist: no other answered creation carries it and no stored
\* playlist other than the created one has it.
C13_CreateAnswers201WithFreshId ==
    \A r \in Slots :
        /\ Done(r) /\ reqs[r].op = "createPlaylist"
        /\ NonEmptyString(reqs[r].body.name)
        /\ NonEmptyString(reqs[r].body.description)
        => /\ Status(r) = 201
           /\ Created(r).name = reqs[r].body.name.v
           /\ Created(r).description = reqs[r].body.description.v
           /\ Created(r).id \in 1..playlists_id_seq
           /\ \A p \in playlists : p.id = Created(r).id => p = Created(r)
           /\ \A s \in Slots \ {r} :
                  Done(s) /\ reqs[s].op = "createPlaylist" /\ Status(s) = 201
                  => Created(s).id # Created(r).id

(***************************************************************************)
(* Listing tracks and playlists                                            *)
(***************************************************************************)
\* the table a listing operation reads
Listed(op) == IF op = "getTracks" THEN tracks ELSE playlists

\* C14: GET /tracks and GET /playlists answer 200 with an array that holds
\* every stored record, each exactly once, in strictly ascending order of
\* identifier.
C14_ListingCompleteAndAscending ==
    \A r \in Slots :
        Done(r) /\ reqs[r].op \in {"getTracks", "getPlaylists"} =>
            LET rows == reqs[r].resp.json.rows
            IN  /\ Status(r) = 200
                /\ reqs[r].resp.json.shape = "array"
                /\ {rows[i] : i \in 1..Len(rows)} = Listed(reqs[r].op)
                /\ Len(rows) = Cardinality(Listed(reqs[r].op))
                /\ \A i \in 1..(Len(rows) - 1) : rows[i].id < rows[i + 1].id

\* the playlists have been listed after a playlist was created
C14_Witness ==
    \E r \in Slots :
        /\ Done(r) /\ reqs[r].op = "getPlaylists" /\ Status(r) = 200
        /\ Len(reqs[r].resp.json.rows) > 1

(***************************************************************************)
(* Storage failures                                                        *)
(***************************************************************************)
\* the message of the 500 of each route
InternalErrorMessage(op) ==
    CASE op = "getTracks" -> "Internal server error while fetching tracks"
      [] op = "getTrack" -> "Internal server error while fetching track"
      [] op = "getPlaylists" -> "Internal server error while fetching playlists"
      [] op = "createPlaylist" -> "Internal server error while creating playlist"
      [] op = "getPlaylist" -> "Internal server error while fetching playlist"
      [] op = "getPlaylistTracks" ->
             "Internal server error while fetching playlist tracks"
      [] op = "addTrack" -> "Internal server error while adding track to playlist"

\* C15: the 500 response of an endpoint is one fixed body, a function of the
\* endpoint alone, so any two storage failures that both lead to a 500 lead
\* to the same response and no part of the storage error (its code, its
\* constraint) reaches the client.
C15_InternalErrorBodyIsFixed ==
    \A r \in Slots :
        Done(r) /\ Status(r) = 500 =>
            /\ reqs[r].err # NoError
            /\ reqs[r].resp = sendError(500, InternalErrorMessage(reqs[r].op))

\* a 500 has answered a storage failure other than the loss of the connection
C15_Witness ==
    \E r \in Slots :
        /\ Done(r) /\ Status(r) = 500
        /\ reqs[r].err.code \notin {"", ConnectionLost.error.code}

(***************************************************************************)
(* What the API changes                                                    *)
(***************************************************************************)
\* the insert of request r, an operation op, executes in this step and is
\* answered 201 with the row in the response
Inserts(r, op) ==
    /\ At(r, op, "insert")
    /\ reqs'[r].pc = "done" /\ reqs'[r].resp.status = 201

\* C16: no step of the API changes the set of stored tracks, changes or
\* removes a stored playlist, or changes or removes a stored association; a
\* playlist is added only by the insert of a POST /playlists request and an
\* association only by the insert of a POST /playlists/:id/tracks request.
C16_ApiFrame ==
    [][/\ tracks' = tracks
       /\ playlists \subseteq playlists'
       /\ playlists_tracks \subseteq playlists_tracks'
       /\ playlists' # playlists =>
              \E r \in Slots :
                  /\ Inserts(r, "createPlaylist")
                  /\ playlists' = playlists \cup {reqs'[r].resp.json.rows[1]}
       /\ playlists_tracks' # playlists_tracks =>
              \E r \in Slots :
                  /\ Inserts(r, "addTrack")
                  /\ playlists_tracks' =
                        playlists_tracks \cup {reqs'[r].resp.json.rows[1]}]_vars

\* a playlist has been created and two tracks have been added to one playlist
C16_Witness ==
    /\ Cardinality(playlists) > 1
    /\ \E a, b \in playlists_tracks :
          a.playlist_id = b.playlist_id /\ a.track_id # b.track_id

(***************************************************************************)
(* The order of the checks of POST /playlists/:id/tracks                   *)
(***************************************************************************)
PlaylistStored(id) == \E p \in playlists : IdText(p.id) = id

TrackStored(trackId) == \E t \in tracks : IdNumber(t.id) = trackId

\* the error of the first check that fails, in the order path identifier,
\* body, trackId present, trackId a positive integer, playlist stored, track
\* stored, pair not yet associated; NoResponse when no check fails
FirstFailingCheck(rq) ==
    IF ~CanonicalPositiveDecimal(rq.id)
    THEN sendError(400, "Playlist ID must be a valid positive integer")
    ELSE IF ~rq.body.present
    THEN sendError(400, "Request body is required")
    ELSE IF rq.body.trackId.t \in {"undefined", "null"}
    THEN sendError(400, "trackId is required in request body")
    ELSE IF ~PositiveInteger(rq.body.trackId)
    THEN sendError(400, "trackId must be a positive integer")
    ELSE IF ~PlaylistStored(rq.id)
    THEN sendError(404, "Playlist not found")
    ELSE IF ~TrackStored(rq.body.trackId)
    THEN sendError(400, "Track does not exist")
    ELSE IF rq.preAssoc
    THEN sendError(400, "Track is already in this playlist")
    ELSE NoResponse

\* C17: POST /playlists/:id/tracks answers with the error of the first check
\* that fails in the fixed order (malformed path identifier, missing body,
\* trackId missing, trackId not a positive integer, playlist absent with 404,
\* track absent, pair already associated) and with 201 when none fails.
C17_FirstFailingCheckAnswers ==
    \A r \in Slots :
        Done(r) /\ reqs[r].op = "addTrack" =>
            IF FirstFailingCheck(reqs[r]) = NoResponse
            THEN Status(r) = 201
            ELSE reqs[r].resp = FirstFailingCheck(reqs[r])

(***************************************************************************)
(* Queries per request                                                     *)
(***************************************************************************)
\* the number of db.query calls in the handler of an operation
QueriesOf(op) ==
    CASE op = "addTrack" -> 3
      [] op = "getPlaylistTracks" -> 2
      [] OTHER -> 1

\* the position of an awaited query among the queries of its handler
QueryIndex(op, pc) ==
    CASE op = "addTrack" /\ pc = "trackCheck" -> 2
      [] op = "addTrack" /\ pc = "insert" -> 3
      [] op = "getPlaylistTracks" /\ pc = "select" -> 2
      [] OTHER -> 1

\* C18: no request retries a storage query: a request has issued at most
\* three queries for add-track, two for listing the tracks of a playlist and
\* one for every other operation, the n-th query it issues is the n-th query
\* of its handler, and once a query has failed the request has responded
\* without issuing another.
C18_NoRetry ==
    \A r \in Slots :
        reqs[r].op # "idle" =>
            /\ reqs[r].q <= QueriesOf(reqs[r].op)
            /\ reqs[r].pc # "done" => reqs[r].q = QueryIndex(reqs[r].op, reqs[r].pc)
            /\ reqs[r].err # NoError => Done(r) /\ reqs[r].q >= 1

\* the second query of an add-track request has failed and the request has
\* answered 500 after two queries
C18_Witness ==
    \E r \in Slots :
        /\ Done(r) /\ reqs[r].op = "addTrack" /\ Status(r) = 500
        /\ reqs[r].q = 2 /\ reqs[r].err \in {f.error : f \in StorageFailures}

(***************************************************************************)
(* A deletion between the existence checks and the insert                  *)
(***************************************************************************)
\* C19: when the insert of an add-track request executes after the playlist
\* or the track it names was deleted (the request is past both existence
\* checks, which found them), the insert is rejected by a foreign key, the
\* association table does not change and the request answers 500 with the
\* add-track message.
C19_DeletedBeforeInsertIs500 ==
    [][\A r \in Slots :
          /\ At(r, "addTrack", "insert")
          /\ reqs'[r].pc = "done"
          /\ ~PlaylistStored(reqs[r].id) \/ ~TrackStored(reqs[r].body.trackId)
          => /\ reqs'[r].err.code = "23503"
             /\ playlists_tracks' = playlists_tracks
             /\ reqs'[r].resp =
                   sendError(500, "Internal server error while adding track to playlist")
      ]_vars

\* the track was deleted after the checks of an add-track request, whose
\* insert was then refused by the foreign key on the track and answered 500
C19_Witness ==
    \E r \in Slots :
        /\ Inserted(r) /\ Status(r) = 500
        /\ reqs[r].err = DbError("23503", "playlists_tracks_track_id_fkey")
        /\ PlaylistStored(reqs[r].id) /\ ~TrackStored(reqs[r].body.trackId)

(***************************************************************************)
(* One response per request                                                *)
(***************************************************************************)
Statuses == {200, 201, 400, 404, 500}

\* C20: a request whose handler has finished has sent exactly one response,
\* with a status among 200, 201, 400, 404 and 500, and a request whose
\* handler awaits a storage query has sent none: no path sends two responses
\* and no path ends without one.
C20_ExactlyOneResponse ==
    \A r \in Slots :
        /\ Done(r) => reqs[r].sent = 1 /\ Status(r) \in Statuses
        /\ ~Done(r) => reqs[r].sent = 0 /\ reqs[r].resp = NoResponse

\* the insert of an add-track request was refused for a duplicate and the
\* request answered once, with the 400
C20_Witness ==
    \E r \in Slots :
        /\ Inserted(r) /\ reqs[r].err.code = "23505"
        /\ reqs[r].sent = 1 /\ Status(r) = 400

(***************************************************************************)
(* Reading what was written                                                *)
(***************************************************************************)
\* the request of slot r, an operation op, is answered in this step with
\* the given status
Answers(r, op, status) ==
    /\ reqs[r].pc # "done"
    /\ reqs'[r].pc = "done" /\ reqs'[r].op = op
    /\ reqs'[r].resp.status = status

\* C21: without direct deletions, what a 201 reports as written is read by
\* every later request.  Step by step: an add-track request answers 201 only
\* with its pair stored and POST /playlists answers 201 only with its
\* playlist stored; no step removes or changes a stored association or
\* playlist; a GET /playlists/p/tracks that answers 200 contains the track of
\* every association stored for p, and a GET /playlists/i for a stored
\* playlist i answers 200 with that playlist's name and description.
C21_ReadsSeeAnsweredWrites ==
    [][/\ playlists \subseteq playlists'
       /\ playlists_tracks \subseteq playlists_tracks'
       /\ \A r \in Slots :
             /\ Answers(r, "addTrack", 201) =>
                    \E pt \in playlists_tracks' :
                        /\ IdText(pt.playlist_id) = reqs'[r].id
                        /\ IdNumber(pt.track_id) = reqs'[r].body.trackId
                        /\ pt = reqs'[r].resp.json.rows[1]
             /\ Answers(r, "createPlaylist", 201) =>
                    /\ reqs'[r].resp.json.rows[1] \in playlists'
                    /\ reqs'[r].resp.json.rows[1].name = reqs'[r].body.name.v
                    /\ reqs'[r].resp.json.rows[1].description =
                          reqs'[r].body.description.v
             /\ Answers(r, "getPlaylistTracks", 200) =>
                    \A pt \in playlists_tracks :
                        IdText(pt.playlist_id) = reqs'[r].id =>
                            \E i \in 1..Len(reqs'[r].resp.json.rows) :
                                reqs'[r].resp.json.rows[i].id = pt.track_id
             /\ \A p \in playlists :
                    /\ reqs[r].pc # "done"
                    /\ reqs'[r].pc = "done" /\ reqs'[r].op = "getPlaylist"
                    /\ reqs'[r].id = IdText(p.id)
                    => /\ reqs'[r].resp.status = 200
                       /\ reqs'[r].resp.json.rows = <<p>>
      ]_vars

\* a playlist created through the API has been read back with 200 while a
\* playlist holds two tracks
C21_Witness ==
    /\ \E r \in Slots :
          /\ Done(r) /\ reqs[r].op = "getPlaylist" /\ Status(r) = 200
          /\ reqs[r].resp.json.rows[1].name = <<"X">>
    /\ \E a, b \in playlists_tracks :
          a.playlist_id = b.playlist_id /\ a.track_id < b.track_id

====
